---- MODULE Spec2Model ----
(***************************************************************************)
(* Market Mirror: the market data service (time-boxed cache, provider      *)
(* fetches, synthetic fallback), the insight aggregator and the alert      *)
(* detector of the dashboard.                                              *)
(*                                                                         *)
(* Percent changes are fixed-point integers in tenths of a percent         *)
(* (85 is 8.5%).  Time is in milliseconds, as Date.now() gives it.         *)
(***************************************************************************)
EXTENDS Integers, Sequences, FiniteSets, TLC

VARIABLES
    cache,          \* MarketDataService.cache: key -> [data, timestamp]
    now,            \* the wall clock, Date.now()
    calls,          \* the service calls in flight, by slot
    alerts,         \* App state: the alert feed
    alertThreshold, \* App state: the alert threshold, tenths of a percent
    marketData,     \* App state: the displayed batch
    aiInsights,     \* App state: the displayed insight, or Null
    isLoading,      \* App state
    marketType,     \* App state
    selectedItems,  \* App state: the tracked symbols
    timers,         \* the armed auto-refresh timers, each the closure it runs
    mounted,        \* whether the component is mounted
    started,        \* how many service calls were started so far
    timeZone,       \* the host's time zone, which Date's local fields follow
    timeRange,      \* App state: the time range selected
    chart           \* the chart payload a quote request was answered with, or Null

svcVars == <<cache, now, calls, started>>
appVars == <<alerts, alertThreshold, marketData, aiInsights, isLoading,
            marketType, selectedItems, timers, mounted, timeZone, timeRange,
            chart>>
vars == <<cache, now, calls, started, alerts, alertThreshold, marketData,
          aiInsights, isLoading, marketType, selectedItems, timers, mounted,
          timeZone, timeRange, chart>>

\* null, as a value that compares with records
Null == [null |-> TRUE]

-----------------------------------------------------------------------------
(* Bounds of the model *)

MaxCalls == 2       \* service calls in flight at once
MaxCycles == 2      \* refresh cycles the dashboard starts in one behaviour
MaxRequests == 2    \* calls a consumer makes of the service alone
MaxChecks == 2      \* invocations of the detector alone
MaxBatch == 2       \* records in a batch handed to the detector
MaxOver == 1        \* records beyond the feed's cap in a long batch
MaxRecords == 3     \* records in a batch handed to the aggregator alone
MaxMoves == 4       \* days of a synthetic history on which the price moves
MaxGenerations == 1 \* histories generated in one behaviour of the generators alone
Precision == 4      \* significant bits of a Number
MaxTimestamps == 32 \* days in a chart payload

(* Program constants *)

CACHE_DURATION == 60000
PerPage == 10

-----------------------------------------------------------------------------
(* Sequences *)

Range(s) == {s[i] : i \in 1..Len(s)}

RECURSIVE Flatten(_)
Flatten(ss) == IF ss = <<>> THEN <<>> ELSE Head(ss) \o Flatten(Tail(ss))

RECURSIVE SelectSeqIn(_, _)
SelectSeqIn(s, S) ==
    IF s = <<>> THEN <<>>
    ELSE IF Head(s) \in S THEN <<Head(s)>> \o SelectSeqIn(Tail(s), S)
         ELSE SelectSeqIn(Tail(s), S)

FirstN(s, n) == IF Len(s) <= n THEN s ELSE SubSeq(s, 1, n)

-----------------------------------------------------------------------------
(* Symbols.  A tracked symbol is a string the user typed between ", "      *)
(* separators; "BTC,ETH" is what "BTC,ETH" typed without the space gives.  *)

Symbols == {"BTC", "ETH", "BTC,ETH"}

MarketTypes == {"crypto", "stocks", "ecommerce"}

SymbolLists == { <<"BTC", "ETH">>, <<"ETH", "BTC">>, <<"BTC,ETH">> }

\* The comma-free pieces of a symbol: what s.split(',') gives.
CommaParts(s) == IF s = "BTC,ETH" THEN <<"BTC", "ETH">> ELSE <<s>>

\* symbols.join(','), as the sequence of its comma-free pieces: two lists
\* join to the same string exactly when they have the same pieces.
JoinComma(symbols) == Flatten([i \in 1..Len(symbols) |-> CommaParts(symbols[i])])

CacheKey(type, symbols) == <<type, JoinComma(symbols)>>

-----------------------------------------------------------------------------
(* The clock.  Date.now() is read at the instants of Times; between two    *)
(* reads any amount of time may pass.                                      *)

Times == {0, 59999, 60000, 61000}

Tick == /\ \E t \in Times : t > now /\ now' = t
        /\ UNCHANGED <<cache, calls, started>>
        /\ UNCHANGED <<timeZone, timeRange, chart>>
        /\ UNCHANGED <<alerts, alertThreshold, marketData, aiInsights, isLoading,
                       marketType, selectedItems, timers, mounted>>

-----------------------------------------------------------------------------
(* Records (RealTimeMarketData).  source tells which code path built the   *)
(* record; history tells where its history came from.                      *)

Rec(symbol, changePercent, source, history) ==
    [symbol |-> symbol, changePercent |-> changePercent,
     source |-> source, history |-> history]

\* The market as a provider reports it: one of two states of the market,
\* each giving every asset its percent change.
Markets == {"down", "up"}

Quote(market, asset) ==
    IF market = "down"
    THEN (IF asset \in {"bitcoin", "BTC"} THEN -85 ELSE 25)
    ELSE (IF asset \in {"bitcoin", "BTC"} THEN 25 ELSE 90)

\* Math.random(): one of two streams of draws; Draw(rnd, i) is 0 or 1, the
\* draw made for the i-th symbol.
RandomStreams == {0, 1}
Draw(rnd, i) == (rnd + i) % 2

\* (Math.random() - 0.5) * X * 100: the synthetic percent change.
SyntheticChange(type, draw) ==
    CASE type = "stocks" -> (IF draw = 0 THEN -20 ELSE 20)     \* within +-3%
      [] type = "crypto" -> (IF draw = 0 THEN -70 ELSE 30)     \* within +-7.5%
      [] type = "ecommerce" -> (IF draw = 0 THEN -40 ELSE 10)  \* within +-5%

\* Mutation of the fallback: only the symbols of the price table get a
\* record.
GetFallbackDataKnown(type, symbols, rnd) ==
    LET known == SelectSeq(symbols, LAMBDA sym : type = "crypto" /\ sym \in {"BTC", "ETH"})
    IN  [i \in 1..Len(known) |->
            Rec(known[i], SyntheticChange(type, Draw(rnd, i)), "fallback", "synthetic")]

\* getFallbackStockData / getFallbackCryptoData: one record per symbol, in
\* input order.
GetFallbackData(type, symbols, rnd) ==
    [i \in 1..Len(symbols) |->
        Rec(symbols[i], SyntheticChange(type, Draw(rnd, i)), "fallback", "synthetic")]

\* fetchEcommerceData: one record per product id, in input order.
EcommerceData(productIds, rnd) ==
    [i \in 1..Len(productIds) |->
        Rec(productIds[i], SyntheticChange("ecommerce", Draw(rnd, i)), "ecommerce",
            "synthetic")]

-----------------------------------------------------------------------------
(* The crypto provider, as the markets request asks it to answer: the      *)
(* known coins among the requested ids, by market capitalisation, at most  *)
(* per_page of them.                                                       *)

\* idMap[symbol] || symbol.toLowerCase(), as comma-free pieces.
CoinIdParts(symbol) ==
    CASE symbol = "BTC" -> <<"bitcoin">>
      [] symbol = "ETH" -> <<"ethereum">>
      [] symbol = "BTC,ETH" -> <<"btc", "eth">>

CoinIds(symbols) == Flatten([i \in 1..Len(symbols) |-> CoinIdParts(symbols[i])])

MarketCapRank == <<"bitcoin", "ethereum">>

ProviderCoins(ids) == FirstN(SelectSeqIn(MarketCapRank, Range(ids)), PerPage)

\* coin.symbol.toUpperCase()
CoinSymbol(id) == IF id = "bitcoin" THEN "BTC" ELSE "ETH"

\* What can happen to an upstream request.
Failures == {"network", "status", "malformed"}
Outcomes == {"ok"} \cup Failures

-----------------------------------------------------------------------------
(* The time-boxed cache *)

\* Mutations of isValidCache: the boundary included, and the comparison
\* turned around.
IsValidCacheInclusive(key) ==
    /\ key \in DOMAIN cache
    /\ now - cache[key].timestamp <= CACHE_DURATION

IsValidCacheInverted(key) ==
    /\ key \in DOMAIN cache
    /\ now - cache[key].timestamp > CACHE_DURATION

\* isValidCache: present and younger than CACHE_DURATION.
IsValidCache(key) ==
    /\ key \in DOMAIN cache
    /\ now - cache[key].timestamp < CACHE_DURATION

\* this.cache.set(key, { data, timestamp: Date.now() })
CacheSet(key, data) ==
    [k \in DOMAIN cache \cup {key} |->
        IF k = key THEN [data |-> data, timestamp |-> now] ELSE cache[k]]

-----------------------------------------------------------------------------
(* Service calls.  A call is one invocation of fetchCryptoData,            *)
(* fetchStockData or fetchEcommerceData; it is suspended at its awaits,    *)
(* where other calls and the clock may run.                                *)
(*   pc       where the call is: idle, markets (awaiting the markets       *)
(*            response), history (awaiting a coin's history), quotes       *)
(*            (awaiting the per-symbol responses), done (promise settled)  *)
(*   coins    crypto: the provider's rows whose history is still to fetch  *)
(*   rows     the records built so far                                     *)
(*   pending  stocks: the indexes of the symbols not yet answered          *)
(*   result   the batch the promise resolved with                          *)
(*   path     which path produced result                                   *)
(*   sent     how many upstream requests the call has issued               *)
(*   threshold  the alertThreshold of the closure that made the call       *)
(*   at       the clock when the call was made                             *)
(*   failed   which of the call's upstream requests failed                 *)
(*   seq      the call's number in the order the calls were made           *)

CallIds == 1..MaxCalls

Idle == [pc |-> "idle", type |-> "crypto", symbols |-> <<>>, coins |-> <<>>,
         rows |-> <<>>, pending |-> {}, result |-> <<>>, path |-> "none",
         sent |-> 0, threshold |-> 80, at |-> 0, failed |-> {}, seq |-> 0]

Settled(call, batch, path) ==
    [call EXCEPT !.pc = "done", !.result = batch, !.path = path,
                 !.coins = <<>>, !.rows = <<>>, !.pending = {}]

\* The start of fetchCryptoData, up to its first await.
StartCrypto(c, symbols, threshold) ==
    LET key == CacheKey("crypto", symbols)
        call == [Idle EXCEPT !.type = "crypto", !.symbols = symbols,
                             !.threshold = threshold, !.at = now,
                             !.seq = started + 1]
    IN  /\ calls' = [calls EXCEPT ![c] =
                IF IsValidCache(key)
                THEN Settled(call, cache[key].data, "cache")
                ELSE [call EXCEPT !.pc = "markets", !.sent = 1]]
        /\ UNCHANGED cache

\* The start of fetchStockData: every symbol's request is issued at once;
\* with no symbol Promise.all resolves at once and the empty batch is cached.
StartStocks(c, symbols, threshold) ==
    LET key == CacheKey("stocks", symbols)
        call == [Idle EXCEPT !.type = "stocks", !.symbols = symbols,
                             !.threshold = threshold, !.at = now,
                             !.seq = started + 1]
    IN  IF IsValidCache(key)
        THEN /\ calls' = [calls EXCEPT ![c] = Settled(call, cache[key].data, "cache")]
             /\ UNCHANGED cache
        ELSE IF symbols = <<>>
        THEN /\ calls' = [calls EXCEPT ![c] = Settled(call, <<>>, "provider")]
             /\ cache' = CacheSet(key, <<>>)
        ELSE /\ calls' = [calls EXCEPT ![c] =
                    [call EXCEPT !.pc = "quotes", !.sent = Len(symbols),
                                 !.pending = 1..Len(symbols),
                                 !.rows = [i \in 1..Len(symbols) |-> Null]]]
             /\ UNCHANGED cache

\* fetchEcommerceData: no await, no cache, no upstream request.
StartEcommerce(c, productIds, threshold) ==
    /\ \E rnd \in RandomStreams :
          calls' = [calls EXCEPT ![c] =
              Settled([Idle EXCEPT !.type = "ecommerce", !.symbols = productIds,
                                   !.threshold = threshold, !.at = now,
                                   !.seq = started + 1],
                      EcommerceData(productIds, rnd), "ecommerce")]
    /\ UNCHANGED cache

\* A call takes the first free slot.
StartCall(c, type, symbols, threshold) ==
    /\ calls[c].pc = "idle"
    /\ \A d \in 1..(c - 1) : calls[d].pc # "idle"
    /\ started' = started + 1
    /\ CASE type = "crypto" -> StartCrypto(c, symbols, threshold)
         [] type = "stocks" -> StartStocks(c, symbols, threshold)
         [] type = "ecommerce" -> StartEcommerce(c, symbols, threshold)
    /\ UNCHANGED now

\* Mutation of the catch block: the fallback batch is cached as the
\* provider's is.
FallbackCached(c, request) ==
    /\ \E rnd \in RandomStreams :
          \E batch \in {GetFallbackData(calls[c].type, calls[c].symbols, rnd)} :
            /\ calls' = [calls EXCEPT ![c] =
                   Settled([@ EXCEPT !.failed = @ \cup {request}], batch, "fallback")]
            /\ cache' = CacheSet(CacheKey(calls[c].type, calls[c].symbols), batch)

\* The catch block of fetchCryptoData / fetchStockData, entered when the
\* request named by request failed.
Fallback(c, request) ==
    /\ \E rnd \in RandomStreams :
          calls' = [calls EXCEPT ![c] =
              Settled([@ EXCEPT !.failed = @ \cup {request}],
                      GetFallbackData(calls[c].type, calls[c].symbols, rnd),
                      "fallback")]
    /\ UNCHANGED cache

\* The end of the try block: cache the batch and return it.
Finish(c, batch) ==
    /\ calls' = [calls EXCEPT ![c] = Settled(@, batch, "provider")]
    /\ cache' = CacheSet(CacheKey(calls[c].type, calls[c].symbols), batch)

\* The markets response arrives.  A failure of any kind lands in the catch
\* block; a success gives the provider's rows, whose histories are then
\* fetched one coin after the other.
MarketsResponse(c) ==
    /\ calls[c].pc = "markets"
    /\ \E outcome \in Outcomes :
        IF outcome \in Failures
        THEN Fallback(c, "markets")
        ELSE LET ids == ProviderCoins(CoinIds(calls[c].symbols))
             IN  \E m \in Markets :
                   LET coins == [i \in 1..Len(ids) |->
                                    [id |-> ids[i], changePercent |-> Quote(m, ids[i])]]
                   IN  IF coins = <<>>
                       THEN Finish(c, <<>>)
                       ELSE /\ calls' = [calls EXCEPT ![c] =
                                  [@ EXCEPT !.pc = "history", !.coins = coins,
                                            !.sent = @ + 1]]
                            /\ UNCHANGED cache
    /\ UNCHANGED <<now, started>>

\* fetchCryptoHistory returns: the provider's history, or [] when the
\* request failed (its own catch, and the !response.ok return).
HistoryResponse(c) ==
    /\ calls[c].pc = "history"
    /\ \E outcome \in Outcomes :
        LET coin == Head(calls[c].coins)
            rec == Rec(CoinSymbol(coin.id), coin.changePercent, "provider",
                       IF outcome = "ok" THEN "provider" ELSE "empty")
            rows == Append(calls[c].rows, rec)
            failed == IF outcome = "ok" THEN calls[c].failed
                      ELSE calls[c].failed \cup {"history"}
        IN  IF Tail(calls[c].coins) = <<>>
            THEN /\ calls' = [calls EXCEPT ![c] =
                       Settled([@ EXCEPT !.failed = failed], rows, "provider")]
                 /\ cache' = CacheSet(CacheKey(calls[c].type, calls[c].symbols), rows)
            ELSE /\ calls' = [calls EXCEPT ![c] =
                       [@ EXCEPT !.coins = Tail(@), !.rows = rows, !.sent = @ + 1,
                                 !.failed = failed]]
                 /\ UNCHANGED cache
    /\ UNCHANGED <<now, started>>

\* One symbol's chart response arrives, in any order.  The first failure
\* rejects Promise.all; the last success resolves it.
QuoteResponse(c) ==
    /\ calls[c].pc = "quotes"
    /\ \E i \in calls[c].pending, outcome \in Outcomes :
        IF outcome \in Failures
        THEN Fallback(c, "quote")
        ELSE \E m \in Markets :
               LET rows == [calls[c].rows EXCEPT ![i] =
                              Rec(calls[c].symbols[i], Quote(m, calls[c].symbols[i]),
                                  "provider", "provider")]
               IN  IF calls[c].pending = {i}
                   THEN Finish(c, rows)
                   ELSE /\ calls' = [calls EXCEPT ![c] =
                              [@ EXCEPT !.rows = rows, !.pending = @ \ {i}]]
                        /\ UNCHANGED cache
    /\ UNCHANGED <<now, started>>

-----------------------------------------------------------------------------
(* The insight aggregator (generateAIInsights).  An average is the pair    *)
(* of its numerator and denominator; 0/0 is NaN, which compares false      *)
(* with everything.                                                        *)

Abs(x) == IF x < 0 THEN -x ELSE x

RECURSIVE SumChange(_)
SumChange(data) ==
    IF data = <<>> THEN 0 ELSE Head(data).changePercent + SumChange(Tail(data))

RECURSIVE SumAbsChange(_)
SumAbsChange(data) ==
    IF data = <<>> THEN 0 ELSE Abs(Head(data).changePercent) + SumAbsChange(Tail(data))

Ratio(num, den) == [num |-> num, den |-> den]
IsNaN(r) == r.den = 0
Gt(r, k) == ~IsNaN(r) /\ r.num > k * r.den
Lt(r, k) == ~IsNaN(r) /\ r.num < k * r.den

AvgChange(data) == Ratio(SumChange(data), Len(data))

\* Mutation of the volatility: the changes are summed without Math.abs.
VolatilitySigned(data) == Ratio(SumChange(data), Len(data))

Volatility(data) == Ratio(SumAbsChange(data), Len(data))

\* Mutation of the trend: the +-2% marks themselves are bullish and bearish.
TrendDirectionInclusive(avgChange) ==
    IF ~IsNaN(avgChange) /\ avgChange.num >= 20 * avgChange.den THEN "bullish"
    ELSE IF ~IsNaN(avgChange) /\ avgChange.num <= -20 * avgChange.den THEN "bearish"
    ELSE "neutral"

TrendDirection(avgChange) ==
    IF Gt(avgChange, 20) THEN "bullish"
    ELSE IF Lt(avgChange, -20) THEN "bearish"
    ELSE "neutral"

\* Mutation of the recommendations: the 5% and 10% marks themselves advise
\* profit-taking and caution.
RecommendationsInclusive(avgChange, volatility, trendDirection) ==
    << IF ~IsNaN(avgChange) /\ avgChange.num >= 50 * avgChange.den
          THEN "Consider taking profits on strong performers"
          ELSE "Hold current positions",
       IF ~IsNaN(volatility) /\ volatility.num >= 100 * volatility.den
          THEN "High volatility detected - use caution"
          ELSE "Stable conditions for entry",
       IF trendDirection = "bullish" THEN "Look for dip-buying opportunities"
                                     ELSE "Consider defensive positioning" >>

Recommendations(avgChange, volatility, trendDirection) ==
    << IF Gt(avgChange, 50) THEN "Consider taking profits on strong performers"
                            ELSE "Hold current positions",
       IF Gt(volatility, 100) THEN "High volatility detected - use caution"
                              ELSE "Stable conditions for entry",
       IF trendDirection = "bullish" THEN "Look for dip-buying opportunities"
                                     ELSE "Consider defensive positioning" >>

VolatilityLabel(volatility) ==
    IF Gt(volatility, 150) THEN "High"
    ELSE IF Gt(volatility, 80) THEN "Moderate"
    ELSE "Low"

\* x.toFixed(digits) of a value held in tenths: the decimal string, as the
\* integer of its digits (ties away from zero), or "NaN".
ToFixed(r, digits) ==
    IF IsNaN(r) THEN "NaN"
    ELSE LET scale == IF digits = 1 THEN 1 ELSE 10
             mag == (2 * Abs(r.num) * scale + r.den) \div (2 * r.den)
         IN  IF r.num < 0 THEN -mag ELSE mag

GenerateAIInsights(data) ==
    LET avgChange == AvgChange(data)
        volatility == Volatility(data)
        trendDirection == TrendDirection(avgChange)
    IN  [ summary |-> [assets |-> Len(data), average |-> ToFixed(avgChange, 2),
                       clause |-> CASE trendDirection = "bullish" -> "Strong upward momentum observed."
                                    [] trendDirection = "bearish" -> "Downward pressure detected."
                                    [] OTHER -> "Sideways movement with mixed signals."],
          recommendations |-> Recommendations(avgChange, volatility, trendDirection),
          volatilityAnalysis |-> [value |-> ToFixed(volatility, 1),
                                  label |-> VolatilityLabel(volatility)],
          trendDirection |-> trendDirection ]

-----------------------------------------------------------------------------
(* The aggregator's arithmetic.  A Number is a binary floating-point       *)
(* value and every + and / rounds its result to the nearest one, ties to   *)
(* the even significand.  Here a Number is an integer count of the         *)
(* smallest step, with at most Precision significant bits (where a         *)
(* Number of the program has 53).                                          *)

RECURSIVE Pow2(_)
Pow2(k) == IF k = 0 THEN 1 ELSE 2 * Pow2(k - 1)

\* The spacing of the Numbers around num / den (num >= 0, den > 0): 1 up
\* to 2^Precision, and doubling with every doubling of the value from there.
RECURSIVE Spacing(_, _, _)
Spacing(num, den, s) ==
    IF num < Pow2(Precision) * den * s THEN s ELSE Spacing(num, den, 2 * s)

\* num / den rounded to the nearest Number.
RoundToNumber(num, den) ==
    LET mag == Abs(num)
        unit == den * Spacing(mag, den, 1)
        t == mag \div unit
        rem == mag - t * unit
        up == 2 * rem > unit \/ (2 * rem = unit /\ t % 2 = 1)
        r == (IF up THEN t + 1 ELSE t) * (unit \div den)
    IN  IF num < 0 THEN -r ELSE r

\* data.reduce((sum, item) => sum + item.changePercent, 0), from the
\* i-th record on, sum as the records before it left it.
RECURSIVE ReduceSum(_, _, _)
ReduceSum(data, i, sum) ==
    IF i > Len(data) THEN sum
    ELSE ReduceSum(data, i + 1, RoundToNumber(sum + data[i].changePercent, 1))

\* Mutation of the average: the sum of the absolute changes is averaged.
NumberAvgChangeAbs(data) ==
    RoundToNumber(ReduceSum([i \in 1..Len(data) |->
                                [changePercent |-> Abs(data[i].changePercent)]], 1, 0),
                  Len(data))

\* avgChange, for a batch of one record or more.
NumberAvgChange(data) == RoundToNumber(ReduceSum(data, 1, 0), Len(data))

-----------------------------------------------------------------------------
(* The alert detector (checkAlerts) *)

MaxAlerts == 10

LastN(s, n) == IF Len(s) <= n THEN s ELSE SubSeq(s, Len(s) - n + 1, Len(s))

Alert(item, t) ==
    [ id |-> <<item.symbol, t>>,
      message |-> <<item.symbol,
                    IF item.changePercent > 0 THEN "surged" ELSE "dropped",
                    Abs(item.changePercent)>>,
      type |-> IF item.changePercent > 0 THEN "success" ELSE "warning",
      timestamp |-> t ]

\* Mutation of the loop: a record at the threshold fires too.
RECURSIVE NewAlertsInclusive(_, _, _)
NewAlertsInclusive(data, threshold, t) ==
    IF data = <<>> THEN <<>>
    ELSE (IF Abs(Head(data).changePercent) >= threshold
          THEN <<Alert(Head(data), t)>> ELSE <<>>)
         \o NewAlertsInclusive(Tail(data), threshold, t)

\* The data.forEach loop: the alerts of the records beyond the threshold,
\* in batch order.
RECURSIVE NewAlerts(_, _, _)
NewAlerts(data, threshold, t) ==
    IF data = <<>> THEN <<>>
    ELSE (IF Abs(Head(data).changePercent) > threshold
          THEN <<Alert(Head(data), t)>> ELSE <<>>)
         \o NewAlerts(Tail(data), threshold, t)

\* Mutations of the feed update: no truncation, and the first ten kept.
AppendAlertsUncapped(prev, newAlerts) == prev \o newAlerts

AppendAlertsFirst(prev, newAlerts) == FirstN(prev \o newAlerts, MaxAlerts)

\* setAlerts(prev => [...prev, ...newAlerts].slice(-10))
AppendAlerts(prev, newAlerts) == LastN(prev \o newAlerts, MaxAlerts)

CheckAlerts(prev, data, threshold, t) ==
    LET newAlerts == NewAlerts(data, threshold, t)
    IN  IF Len(newAlerts) > 0 THEN AppendAlerts(prev, newAlerts) ELSE prev

-----------------------------------------------------------------------------
(* The dashboard (MarketMirror) *)

Thresholds == {-10, 80}

\* The values a render's fetchMarketData closes over.
Closure == [marketType |-> marketType, selectedItems |-> selectedItems,
            alertThreshold |-> alertThreshold]

\* fetchMarketData up to its await: setIsLoading(true) and the service call.
StartCycle(c, closure) ==
    /\ started < MaxCycles
    /\ isLoading' = TRUE
    /\ StartCall(c, closure.marketType, closure.selectedItems, closure.alertThreshold)

\* fetchMarketData after its await: the batch is displayed, the insight is
\* computed from it, the alerts are checked against the closure's threshold,
\* and finally isLoading is reset.
\* Mutation of the continuation: no finally block, isLoading stays as set.
DisplayStillLoading(data, threshold) ==
    /\ marketData' = data
    /\ aiInsights' = GenerateAIInsights(data)
    /\ alerts' = CheckAlerts(alerts, data, threshold, now)
    /\ isLoading' = isLoading

\* Mutation of the continuation: the insight is computed from the records
\* displayed before, not from the batch that arrived.
DisplayStaleInsight(data, threshold) ==
    /\ marketData' = data
    /\ aiInsights' = GenerateAIInsights(marketData)
    /\ alerts' = CheckAlerts(alerts, data, threshold, now)
    /\ isLoading' = FALSE

Display(data, threshold) ==
    /\ marketData' = data
    /\ aiInsights' = GenerateAIInsights(data)
    /\ alerts' = CheckAlerts(alerts, data, threshold, now)
    /\ isLoading' = FALSE

Resume(c) ==
    /\ calls[c].pc = "done"
    /\ Display(calls[c].result, calls[c].threshold)
    /\ calls' = [calls EXCEPT ![c] = Idle]
    /\ UNCHANGED <<timeZone, timeRange, chart>>
    /\ UNCHANGED <<cache, now, started, alertThreshold, marketType, selectedItems,
                   timers, mounted>>

\* Mutation of the effect: no cleanup, the previous run's timer stays armed.
EffectNoCleanup(c, closure) ==
    /\ StartCycle(c, closure)
    /\ timers' = timers \o <<closure>>

\* The auto-refresh effect: the previous run's cleanup clears its timer, then
\* fetchMarketData() and setInterval(fetchMarketData), both with the closure
\* of the render the effect belongs to.
Effect(c, closure) ==
    /\ StartCycle(c, closure)
    /\ timers' = (IF timers = <<>> THEN <<>> ELSE Tail(timers)) \o <<closure>>

Mount ==
    /\ ~mounted
    /\ mounted' = TRUE
    /\ \E c \in CallIds : Effect(c, Closure)
    /\ UNCHANGED <<timeZone, timeRange, chart>>
    /\ UNCHANGED <<alerts, alertThreshold, marketData, aiInsights, marketType,
                   selectedItems>>

\* The component unmounts: the effect's cleanup clears its timer.  Calls in
\* flight go on, and React may mount the component again with its state
\* kept (as StrictMode does in development); the effect then runs again.
Unmount ==
    /\ mounted
    /\ mounted' = FALSE
    /\ timers' = <<>>
    /\ UNCHANGED <<timeZone, timeRange, chart>>
    /\ UNCHANGED <<cache, now, calls, started, alerts, alertThreshold, marketData,
                   aiInsights, isLoading, marketType, selectedItems>>

\* An interval timer fires: the closure it was armed with runs.
TimerFire ==
    /\ \E i \in 1..Len(timers), c \in CallIds : StartCycle(c, timers[i])
    /\ UNCHANGED <<timeZone, timeRange, chart>>
    /\ UNCHANGED <<alerts, alertThreshold, marketData, aiInsights, marketType,
                   selectedItems, timers, mounted>>

\* The Refresh button, disabled while isLoading.
RefreshClick ==
    /\ mounted
    /\ ~isLoading
    /\ \E c \in CallIds : StartCycle(c, Closure)
    /\ UNCHANGED <<timeZone, timeRange, chart>>
    /\ UNCHANGED <<alerts, alertThreshold, marketData, aiInsights, marketType,
                   selectedItems, timers, mounted>>

\* The Market Type select; the effect runs again on the change.
SetMarketType ==
    /\ mounted
    /\ \E t \in MarketTypes \ {marketType} :
          /\ marketType' = t
          /\ \E c \in CallIds : Effect(c, [Closure EXCEPT !.marketType = t])
    /\ UNCHANGED <<timeZone, timeRange, chart>>
    /\ UNCHANGED <<alerts, alertThreshold, marketData, aiInsights, selectedItems,
                   mounted>>

\* The Items to Track input; the effect runs again on the change.
SetSelectedItems ==
    /\ mounted
    /\ \E l \in SymbolLists \ {selectedItems} :
          /\ selectedItems' = l
          /\ \E c \in CallIds : Effect(c, [Closure EXCEPT !.selectedItems = l])
    /\ UNCHANGED <<timeZone, timeRange, chart>>
    /\ UNCHANGED <<alerts, alertThreshold, marketData, aiInsights, marketType,
                   mounted>>

\* The Time Range select; the effect runs again on the change.
TimeRanges == {"7d", "1m"}

SetTimeRange ==
    /\ mounted
    /\ \E r \in TimeRanges \ {timeRange} :
          /\ timeRange' = r
          /\ \E c \in CallIds : Effect(c, Closure)
    /\ UNCHANGED <<timeZone, chart>>
    /\ UNCHANGED <<alerts, alertThreshold, marketData, aiInsights, marketType,
                   selectedItems, mounted>>

\* Mutation of the Alert Threshold input: the effect depends on it too.
SetAlertThresholdRefetch ==
    /\ mounted
    /\ \E t \in Thresholds \ {alertThreshold} :
          /\ alertThreshold' = t
          /\ \E c \in CallIds : Effect(c, [Closure EXCEPT !.alertThreshold = t])
    /\ UNCHANGED <<timeZone, timeRange, chart>>
    /\ UNCHANGED <<alerts, marketData, aiInsights, marketType, selectedItems, mounted>>

\* The Alert Threshold input; no effect depends on it.
SetAlertThreshold ==
    /\ mounted
    /\ \E t \in Thresholds \ {alertThreshold} : alertThreshold' = t
    /\ UNCHANGED <<timeZone, timeRange, chart>>
    /\ UNCHANGED <<cache, now, calls, started, alerts, marketData, aiInsights,
                   isLoading, marketType, selectedItems, timers, mounted>>

-----------------------------------------------------------------------------
(* The host's calendar, as Date gives it.  A Date holds a UTC instant; its  *)
(* local fields (getDate, setDate) follow the host's time zone and its ISO  *)
(* string is in UTC.  Instants are in minutes here, days are numbered from  *)
(* the epoch.                                                               *)

MinuteMs == 60000
DayMinutes == 1440

\* A time zone: the minutes its local time is ahead of UTC before and after
\* one change of offset, which takes place at the UTC minute at.
Zone(before, after, at) == [before |-> before, after |-> after, at |-> at]

Utc == Zone(0, 0, 0)

\* The zones of the hosts: UTC, a zone of fixed offset (+05:30), and zones
\* that put the clock forward or back by an hour at 01:00 UTC of day 10
\* (as Europe/London does) or at 07:00 UTC of day 10 (as America/New_York).
Zones ==
    { Utc,
      Zone(330, 330, 0),
      Zone(0, 60, 14460),
      Zone(60, 0, 14460),
      Zone(-300, -240, 14820),
      Zone(-240, -300, 14820) }

OffsetAt(zone, utc) == IF utc < zone.at THEN zone.before ELSE zone.after

\* The UTC instant of a local time: a local time that the change of offset
\* skips is read with the offset before the change, one that it repeats is
\* the earlier instant.
LocalToUtc(zone, local) ==
    LET a == local - zone.before
        b == local - zone.after
    IN  IF a < zone.at THEN a
        ELSE IF b >= zone.at THEN b
        ELSE a

\* date.setDate(date.getDate() - i): the same local time of day, i local
\* calendar days earlier.
SetDateBack(zone, utc, i) ==
    LocalToUtc(zone, utc + OffsetAt(zone, utc) - i * DayMinutes)

\* date.toISOString().split('T')[0]: the UTC calendar day of the instant.
IsoDate(utc) == utc \div DayMinutes

-----------------------------------------------------------------------------
(* The history of a stock record (fetchStockData), made of the chart     *)
(* payload's parallel arrays timestamp, close and volume.  Array indexes  *)
(* are the program's, from 0; a value that is null, undefined or 0 is     *)
(* written 0: the three are falsy and the code only tests them with ||.   *)

ChartWindow == 30

\* array[k]: undefined outside the array, negative k included.
At(array, k) == IF k >= 0 /\ k < Len(array) THEN array[k + 1] ELSE 0

\* a || b
OrElse(a, b) == IF a = 0 THEN b ELSE a

\* array.slice(-k)
SliceLast(array, k) ==
    SubSeq(array, (IF Len(array) > k THEN Len(array) - k ELSE 0) + 1, Len(array))

\* new Date(timestamp * 1000).toISOString().split('T')[0], timestamp in
\* seconds.
ChartDate(timestamp) == IsoDate(timestamp \div 60)

\* timestamps.slice(-30).map((timestamp, index) => ...); index is i - 1.
StockHistory(timestamps, closes, volumes, currentPrice) ==
    LET sliced == SliceLast(timestamps, ChartWindow)
    IN  [i \in 1..Len(sliced) |->
            [date |-> ChartDate(sliced[i]),
             price |-> OrElse(At(closes, Len(closes) - ChartWindow + (i - 1)),
                              currentPrice),
             volume |-> OrElse(At(volumes, Len(volumes) - ChartWindow + (i - 1)), 0)]]

-----------------------------------------------------------------------------
(* Synthetic histories: the loops of getFallbackStockData,                  *)
(* getFallbackCryptoData and fetchEcommerceData.  Prices are exact ratios   *)
(* to the baseline price of the price table.                                *)

HistoryDays == 30

\* What Math.random() makes of a day's price: for the first days of the
\* loop a move down or up, then no change for the rest of the loop.
Moves == {"down", "up"}
Rolls == UNION {[1..n -> Moves] : n \in 0..MaxMoves}

MoveOf(rolls, j) == IF j <= Len(rolls) THEN rolls[j] ELSE "hold"

\* 1 + dailyChange
DailyFactor(type, move) ==
    CASE move = "hold" -> Ratio(1, 1)
      [] type = "stocks" -> (IF move = "down" THEN Ratio(49, 50) ELSE Ratio(51, 50))
      [] type = "crypto" -> (IF move = "down" THEN Ratio(39, 40) ELSE Ratio(41, 40))
      [] type = "ecommerce" -> (IF move = "down" THEN Ratio(9, 10) ELSE Ratio(21, 20))

\* currentPrice *= (1 + dailyChange)
NextPrice(p, f) == Ratio(p.num * f.num, p.den * f.den)

\* The price pushed: Math.max(currentPrice, baseData.price * 0.7) for the
\* e-commerce history, currentPrice for the other two.
HistoryPrice(type, p) ==
    IF type = "ecommerce" /\ p.num * 10 < 7 * p.den THEN Ratio(7, 10) ELSE p

\* new Date() in the j-th iteration: the loop reads the clock anew each
\* time, and from iteration turn on (0: never) the clock has moved on by a
\* minute.
Turns == {0, 12}
ClockAt(t, turn, j) == IF turn # 0 /\ j >= turn THEN t + MinuteMs ELSE t

\* The loop from its j-th iteration (i = 29 is j = 1), currentPrice and
\* history as the iterations before it left them.
RECURSIVE HistoryLoop(_, _, _, _, _, _, _, _)
HistoryLoop(type, zone, t, turn, rolls, j, currentPrice, history) ==
    IF j > HistoryDays THEN history
    ELSE LET date == SetDateBack(zone, ClockAt(t, turn, j) \div MinuteMs,
                                 HistoryDays - j)
             price == NextPrice(currentPrice, DailyFactor(type, MoveOf(rolls, j)))
         IN  HistoryLoop(type, zone, t, turn, rolls, j + 1, price,
                 Append(history, [date |-> IsoDate(date),
                                  price |-> HistoryPrice(type, price)]))

SyntheticHistory(type, zone, t, turn, rolls) ==
    HistoryLoop(type, zone, t, turn, rolls, 1, Ratio(1, 1), <<>>)

-----------------------------------------------------------------------------
(* Specifications *)

Init ==
    /\ cache = <<>>
    /\ now = 0
    /\ calls = [c \in CallIds |-> Idle]
    /\ started = 0
    /\ alerts = <<>>
    /\ alertThreshold = 80
    /\ marketData = <<>>
    /\ aiInsights = Null
    /\ isLoading = FALSE
    /\ marketType = "crypto"
    /\ selectedItems = <<"BTC", "ETH">>
    /\ timers = <<>>
    /\ mounted = FALSE
    /\ timeZone = Utc
    /\ timeRange = "7d"
    /\ chart = Null

Responses ==
    \/ \E c \in CallIds : MarketsResponse(c) /\ UNCHANGED appVars
    \/ \E c \in CallIds : HistoryResponse(c) /\ UNCHANGED appVars
    \/ \E c \in CallIds : QuoteResponse(c) /\ UNCHANGED appVars

\* The dashboard with its service.
Next ==
    \/ Mount
    \/ TimerFire
    \/ RefreshClick
    \/ SetMarketType
    \/ SetSelectedItems
    \/ SetTimeRange
    \/ SetAlertThreshold
    \/ \E c \in CallIds : Resume(c)
    \/ Responses
    \/ Tick

Spec == Init /\ [][Next]_vars

\* The upstream request that the call in slot c awaits is answered, or
\* fails.
Answered(c) ==
    (MarketsResponse(c) \/ HistoryResponse(c) \/ QuoteResponse(c)) /\ UNCHANGED appVars

\* The refresh cycles and all that starts one, the clock and the alert
\* threshold standing still.
NextCycles ==
    \/ Mount
    \/ TimerFire
    \/ RefreshClick
    \/ SetMarketType
    \/ SetSelectedItems
    \/ SetTimeRange
    \/ \E c \in CallIds : Resume(c)
    \/ Responses

SpecCycles ==
    /\ Init
    /\ [][NextCycles]_vars
    /\ \A c \in CallIds : WF_vars(Answered(c)) /\ WF_vars(Resume(c))

\* The service alone, called by any consumer with any market type and
\* symbol list; the consumer takes the settled result.
ServiceCall ==
    /\ started < MaxRequests
    /\ \E c \in CallIds, type \in MarketTypes, symbols \in SymbolLists :
          StartCall(c, type, symbols, 80)
    /\ UNCHANGED appVars

Consume ==
    /\ \E c \in CallIds : calls[c].pc = "done" /\ calls' = [calls EXCEPT ![c] = Idle]
    /\ UNCHANGED <<cache, now, started>>
    /\ UNCHANGED appVars

NextService == ServiceCall \/ Consume \/ Responses \/ Tick

SpecService == Init /\ [][NextService]_vars

-----------------------------------------------------------------------------
(* The detector alone: the refresh cycle's continuation, run on batches    *)
(* of any content with any threshold.                                      *)

AlertChanges == {-85, 80, 85}
AlertThresholds == {80, 85}

AlertRecords == {Rec("BTC", cp, "provider", "provider") : cp \in AlertChanges}

Alternate(r1, r2, n) == [i \in 1..n |-> IF i % 2 = 1 THEN r1 ELSE r2]

\* Every batch of up to MaxBatch records, and the batches longer than the
\* feed's cap that alternate two different records.
Batches ==
    UNION {[1..n -> AlertRecords] : n \in 0..MaxBatch}
    \cup {Alternate(p[1], p[2], MaxAlerts + MaxOver) :
             p \in {q \in AlertRecords \X AlertRecords : q[1] # q[2]}}

Refreshed ==
    /\ started < MaxChecks
    /\ started' = started + 1
    /\ \E data \in Batches, threshold \in AlertThresholds :
          /\ alertThreshold' = threshold
          /\ Display(data, threshold)
    /\ UNCHANGED <<timeZone, timeRange, chart>>
    /\ UNCHANGED <<cache, now, calls, marketType, selectedItems, timers, mounted>>

SpecAlerts == Init /\ [][Refreshed]_vars

-----------------------------------------------------------------------------
(* The insight aggregator alone: generateAIInsights applied to batches of   *)
(* up to MaxRecords records with changes around the marks of the trend      *)
(* (+-2%) and of the recommendations (5% and 10%).                          *)

InsightChanges ==
    {-151, -101, -100, -40, -21, -20, 0, 20, 21, 40, 50, 51, 100, 101, 150, 151}

InsightBatches ==
    UNION {[1..n -> {Rec("BTC", cp, "provider", "provider") : cp \in InsightChanges}] :
           n \in 0..MaxRecords}

\* The first aggregation after the mount.
Aggregated ==
    /\ aiInsights = Null
    /\ \E data \in InsightBatches :
          /\ marketData' = data
          /\ aiInsights' = GenerateAIInsights(data)
    /\ UNCHANGED <<timeZone, timeRange, chart>>
    /\ UNCHANGED <<cache, now, calls, started, alerts, alertThreshold, isLoading,
                   marketType, selectedItems, timers, mounted>>

SpecInsight == Init /\ [][Aggregated]_vars

-----------------------------------------------------------------------------
(* The aggregator's average alone: avgChange of batches of one to          *)
(* MaxRecords records whose changes are Numbers of full precision, of one  *)
(* binade and of both signs.                                               *)

NumberChanges ==
    LET top == {m * Pow2(Precision) : m \in Pow2(Precision - 1)..(Pow2(Precision) - 1)}
    IN  top \cup {-x : x \in {y \in top : y % Pow2(Precision + 2) = 0}}

NumberBatches ==
    UNION {[1..n -> {Rec("BTC", cp, "provider", "provider") : cp \in NumberChanges}] :
           n \in 1..MaxRecords}

\* generateAIInsights up to its avgChange; the first aggregation after the
\* mount.
Averaged ==
    /\ aiInsights = Null
    /\ \E data \in NumberBatches :
          /\ marketData' = data
          /\ aiInsights' = [avgChange |-> NumberAvgChange(data)]
    /\ UNCHANGED <<timeZone, timeRange, chart>>
    /\ UNCHANGED <<cache, now, calls, started, alerts, alertThreshold, isLoading,
                   marketType, selectedItems, timers, mounted>>

SpecMean == Init /\ [][Averaged]_vars

-----------------------------------------------------------------------------
(* The stock history alone: fetchStockData's processing of one chart       *)
(* payload, for every length of the payload's arrays.                      *)

FirstDay == -16
OpenSecond == 48600
DaySeconds == 86400
ClosePrice == 100
DayVolume == 1000
MarketPrice == 500

\* A payload of n daily points, the arrays of equal length: the point of
\* array index k was taken at the market's opening of day FirstDay + k, its
\* close is ClosePrice + k and its volume DayVolume + k, which tell the
\* indexes apart; the point of index hole - 1, if any, has a null close and
\* volume.
Chart(n, hole) ==
    [timestamp |-> [k \in 1..n |-> (FirstDay + k - 1) * DaySeconds + OpenSecond],
     close |-> [k \in 1..n |-> IF k = hole THEN 0 ELSE ClosePrice + k - 1],
     volume |-> [k \in 1..n |-> IF k = hole THEN 0 ELSE DayVolume + k - 1],
     regularMarketPrice |-> MarketPrice]

Charts == {Chart(n, hole) : n \in 0..MaxTimestamps, hole \in 0..MaxTimestamps}

InitQuote ==
    /\ cache = <<>>
    /\ now = 0
    /\ calls = [c \in CallIds |-> Idle]
    /\ started = 0
    /\ alerts = <<>>
    /\ alertThreshold = 80
    /\ marketData = <<>>
    /\ aiInsights = Null
    /\ isLoading = FALSE
    /\ marketType = "stocks"
    /\ selectedItems = <<"AAPL">>
    /\ timers = <<>>
    /\ mounted = FALSE
    /\ timeZone = Utc
    /\ timeRange = "7d"
    /\ chart \in Charts

\* The body of symbols.map's callback for one answered request: the record
\* and its history.
Charted ==
    /\ marketData = <<>>
    /\ marketData' =
          << Rec("AAPL", 25, "provider",
                 StockHistory(chart.timestamp, chart.close, chart.volume,
                              chart.regularMarketPrice)) >>
    /\ UNCHANGED <<timeZone, timeRange, chart>>
    /\ UNCHANGED <<cache, now, calls, started, alerts, alertThreshold, aiInsights,
                   isLoading, marketType, selectedItems, timers, mounted>>

SpecQuote == InitQuote /\ [][Charted]_vars

-----------------------------------------------------------------------------
(* The synthetic generators alone: one record's history, generated at any   *)
(* of four times of day 20 (00:30, 12:00, 23:30 and 23:59:30 UTC) on a host *)
(* in any of the zones.                                                     *)

HistoryClocks == {1729800000, 1771200000, 1812600000, 1814370000}

InitHistory ==
    /\ cache = <<>>
    /\ now \in HistoryClocks
    /\ calls = [c \in CallIds |-> Idle]
    /\ started = 0
    /\ alerts = <<>>
    /\ alertThreshold = 80
    /\ marketData = <<>>
    /\ aiInsights = Null
    /\ isLoading = FALSE
    /\ marketType = "crypto"
    /\ selectedItems = <<"BTC", "ETH">>
    /\ timers = <<>>
    /\ mounted = FALSE
    /\ timeZone \in Zones
    /\ timeRange = "7d"
    /\ chart = Null

Generated ==
    /\ started < MaxGenerations
    /\ started' = started + 1
    /\ \E type \in MarketTypes, rolls \in Rolls, turn \in Turns :
          /\ marketType' = type
          /\ marketData' =
                << Rec("BTC", SyntheticChange(type, 0),
                       IF type = "ecommerce" THEN "ecommerce" ELSE "fallback",
                       SyntheticHistory(type, timeZone, now, turn, rolls)) >>
    /\ UNCHANGED <<timeZone, timeRange, chart>>
    /\ UNCHANGED <<cache, now, calls, alerts, alertThreshold, aiInsights,
                   isLoading, selectedItems, timers, mounted>>

SpecHistory == InitHistory /\ [][Generated]_vars

-----------------------------------------------------------------------------
(* Properties of the alert detector *)

\* The indexes of the records of data beyond threshold, in batch order.
Exceeding(data, threshold) ==
    SelectSeq([i \in 1..Len(data) |-> i],
              LAMBDA i : Abs(data[i].changePercent) > threshold)

Min(a, b) == IF a <= b THEN a ELSE b

\* C1: after any sequence of detector invocations, with batches of any size
\* and any threshold, the feed holds at most 10 events.
C1_FeedAtMostTen == Len(alerts) <= 10

\* C1 witness: the feed is full after an invocation whose batch alone had
\* more firing records than the feed can hold.
C1_Witness ==
    /\ Len(alerts) = 10
    /\ Len(Exceeding(marketData, alertThreshold)) > 10

\* C2: one invocation emits exactly one alert for each record with
\* |changePercent| > T and none for any other record (a record at the
\* threshold emits none): the feed grows by the number of such records, up
\* to its cap, and its newest entries are those records' alerts, of
\* severity success for a positive change and warning for a negative one.
C2_OneAlertPerExceeding ==
    [][ \E ex \in {Exceeding(marketData', alertThreshold')} :
        LET data == marketData'
            m == Len(ex)
            k == Min(m, 10)
        IN  /\ Len(alerts') = Min(10, Len(alerts) + m)
            /\ \A j \in 1..k :
                  LET a == alerts'[Len(alerts') - k + j]
                      r == data[ex[m - k + j]]
                  IN  /\ a.id[1] = r.symbol
                      /\ a.message[3] = Abs(r.changePercent)
                      /\ r.changePercent > 0 => a.type = "success"
                      /\ r.changePercent < 0 => a.type = "warning" ]_vars

\* C2 witness: with T = 8%, a batch of a record at +8% and a record at
\* -8.5% was checked on an empty feed: one alert, a warning.
C2_Witness ==
    /\ alertThreshold = 80
    /\ Len(marketData) = 2
    /\ marketData[1].changePercent = 80
    /\ marketData[2].changePercent = -85
    /\ Len(alerts) = 1
    /\ alerts[1].type = "warning"

\* C3: the feed after an invocation is the last 10 elements of the previous
\* feed followed by the new alerts in batch order; the oldest are dropped
\* first, the earliest alerts of the same batch included.
C3_FeedIsLastTen ==
    [][ \E ex \in {Exceeding(marketData', alertThreshold')} :
        \E all \in {alerts \o [j \in 1..Len(ex) |-> Alert(marketData'[ex[j]], now)]} :
            alerts' = IF Len(all) <= 10 THEN all
                      ELSE [j \in 1..10 |-> all[Len(all) - 10 + j]] ]_vars

\* C3 witness: more than 10 records of two kinds fired at once; the feed
\* holds the last 10 of them, the batch's first alert dropped.
C3_Witness ==
    LET ex == Exceeding(marketData, alertThreshold)
    IN  /\ Len(ex) > 10
        /\ marketData[1] # marketData[2]
        /\ alerts = [j \in 1..10 |-> Alert(marketData[ex[Len(ex) - 10 + j]], now)]

-----------------------------------------------------------------------------
(* Properties of the time-boxed cache *)

\* Slot c holds a crypto or stock call that was made in this step.
Made(c) ==
    /\ calls[c].pc = "idle"
    /\ calls'[c].pc # "idle"
    /\ calls'[c].type # "ecommerce"

KeyOf(call) == CacheKey(call.type, call.symbols)

\* C4: a call made while its key's entry is younger than 60 s returns the
\* entry's batch unchanged; a call made when the entry is 60 s old or older
\* is a miss (it does not take the cache path); and nothing but a later
\* store removes or changes an entry: the passing of time leaves the cache
\* as it is, so staleness is decided on read.
C4_CacheTTL ==
    [][ /\ \A c \in CallIds :
            (Made(c) /\ KeyOf(calls'[c]) \in DOMAIN cache) =>
                LET entry == cache[KeyOf(calls'[c])]
                IN  IF now - entry.timestamp < 60000
                    THEN /\ calls'[c].pc = "done"
                         /\ calls'[c].path = "cache"
                         /\ calls'[c].result = entry.data
                    ELSE calls'[c].path # "cache"
        /\ DOMAIN cache \subseteq DOMAIN cache'
        /\ now' # now => cache' = cache ]_vars

\* C4 witness: a call made exactly 60 s after its key's entry was stored
\* is awaiting the provider, the stale entry still in the cache.
C4_Witness ==
    \E c \in CallIds :
        /\ calls[c].pc \in {"markets", "quotes"}
        /\ KeyOf(calls[c]) \in DOMAIN cache
        /\ cache[KeyOf(calls[c])].timestamp = 0
        /\ calls[c].at = 60000

\* C5: a crypto or stock call made while a valid (younger than 60 s) entry
\* exists for its key issues no upstream request, returns exactly the
\* cached batch, and leaves the cache unchanged.
C5_CacheHitFrame ==
    [][ \A c \in CallIds :
            ( /\ Made(c)
              /\ KeyOf(calls'[c]) \in DOMAIN cache
              /\ now - cache[KeyOf(calls'[c])].timestamp < 60000 ) =>
                /\ calls'[c].sent = 0
                /\ calls'[c].pc = "done"
                /\ calls'[c].result = cache[KeyOf(calls'[c])].data
                /\ cache' = cache ]_vars

\* C5 witness: a call answered from an entry 59.999 s old, for both market
\* types' sake a non-empty batch.
C5_Witness ==
    \E c \in CallIds :
        /\ calls[c].pc = "done"
        /\ calls[c].path = "cache"
        /\ calls[c].sent = 0
        /\ calls[c].result # <<>>
        /\ calls[c].at - cache[KeyOf(calls[c])].timestamp = 59999

-----------------------------------------------------------------------------
(* Properties of the insight aggregator *)

\* C6: for every non-empty batch the trend is bullish if and only if the
\* average percent change is above 2, bearish if and only if it is below
\* -2, and neutral otherwise: an average of exactly 2 or exactly -2 is
\* neutral.  (The average is sum / n, so it is compared as sum against
\* 2% * n.)
C6_TrendThresholds ==
    (marketData # <<>> /\ aiInsights # Null) =>
        LET sum == SumChange(marketData)
            n == Len(marketData)
            trend == aiInsights.trendDirection
        IN  /\ trend \in {"bullish", "bearish", "neutral"}
            /\ trend = "bullish" <=> sum > 20 * n
            /\ trend = "bearish" <=> sum < -20 * n
            /\ sum \in {20 * n, -20 * n} => trend = "neutral"

\* C6 witness: three records of -2%, 4% and 4% average exactly 2%, and the
\* insight shown for them is neutral.
C6_Witness ==
    /\ Len(marketData) = 3
    /\ marketData[1].changePercent = -20
    /\ SumChange(marketData) = 60
    /\ aiInsights # Null
    /\ aiInsights.trendDirection = "neutral"

\* C15: for every non-empty batch the insight carries exactly three
\* recommendations, in this order: profit-taking if and only if the average
\* change is above 5% (else hold), caution if and only if the average
\* absolute change is above 10% (else stable entry), dip-buying if and only
\* if the trend is bullish (else defensive).
C15_ThreeRecommendations ==
    (marketData # <<>> /\ aiInsights # Null) =>
        LET n == Len(marketData)
            recs == aiInsights.recommendations
        IN  /\ Len(recs) = 3
            /\ recs[1] = IF SumChange(marketData) > 50 * n
                            THEN "Consider taking profits on strong performers"
                            ELSE "Hold current positions"
            /\ recs[2] = IF SumAbsChange(marketData) > 100 * n
                            THEN "High volatility detected - use caution"
                            ELSE "Stable conditions for entry"
            /\ recs[3] = IF aiInsights.trendDirection = "bullish"
                            THEN "Look for dip-buying opportunities"
                            ELSE "Consider defensive positioning"

\* C15 witness: records of -10% and 10% average 0% with an average
\* absolute change of exactly 10%: hold, stable entry, defensive.
C15_Witness ==
    /\ Len(marketData) = 2
    /\ marketData[1].changePercent = -100
    /\ marketData[2].changePercent = 100
    /\ aiInsights # Null
    /\ aiInsights.recommendations =
           << "Hold current positions", "Stable conditions for entry",
              "Consider defensive positioning" >>

\* C7 as claimed: no insight computed from an empty batch is ever produced
\* or displayed; every displayed insight is of one asset or more.
C7_EmptyBatchRejected ==
    aiInsights # Null => aiInsights.summary.assets > 0

-----------------------------------------------------------------------------
(* Properties of the aggregator's arithmetic *)

RECURSIVE MinChange(_)
MinChange(data) ==
    IF Len(data) = 1 THEN data[1].changePercent
    ELSE Min(data[1].changePercent, MinChange(Tail(data)))

RECURSIVE MaxChange(_)
MaxChange(data) ==
    IF Len(data) = 1 THEN data[1].changePercent
    ELSE -Min(-data[1].changePercent, -MaxChange(Tail(data)))

\* The largest |changePercent| of the batch.
MaxAbsChange(data) == -Min(-Abs(MinChange(data)), -Abs(MaxChange(data)))

-----------------------------------------------------------------------------
(* Properties of the fetch paths *)

\* batch has one record per symbol of symbols, the i-th for the i-th symbol.
PerSymbolInOrder(batch, symbols) ==
    /\ Len(batch) = Len(symbols)
    /\ \A i \in 1..Len(symbols) : batch[i].symbol = symbols[i]

AllFrom(batch, source) == \A i \in 1..Len(batch) : batch[i].source = source

C9_PerSymbolInOrder ==
    \A c \in CallIds :
        calls[c].pc = "done" => PerSymbolInOrder(calls[c].result, calls[c].symbols)

-----------------------------------------------------------------------------
(* Properties of the synthetic histories *)

ConsecutiveDays(history) ==
    \A j \in 1..(Len(history) - 1) : history[j + 1].date = history[j].date + 1

\* The last point is dated the UTC day of the clock (as it stood when the
\* loop began or a minute later).
EndsToday(history) ==
    history[Len(history)].date \in
        {IsoDate(now \div 60000), IsoDate(now \div 60000 + 1)}

AboveFloor(history) ==
    \A j \in 1..Len(history) : history[j].price.num * 10 >= 7 * history[j].price.den

\* C10 as claimed: every history of the synthetic generators has exactly 30
\* points whose dates go up by one calendar day from point to point, the
\* last on the current day, and every e-commerce history price is at least
\* 0.7 of the baseline.
C10_SyntheticHistories ==
    \A r \in 1..Len(marketData) :
        LET history == marketData[r].history
        IN  /\ Len(history) = 30
            /\ ConsecutiveDays(history)
            /\ EndsToday(history)
            /\ marketData[r].source = "ecommerce" => AboveFloor(history)

-----------------------------------------------------------------------------
(* Properties of the alert feed's ids *)

\* C14 as claimed: all alert ids in the feed are pairwise distinct in every
\* reachable state.
C14_AlertIdsDistinct ==
    \A i, j \in 1..Len(alerts) : i # j => alerts[i].id # alerts[j].id

-----------------------------------------------------------------------------
(* Properties of the refresh cycles *)

\* The slots whose cycle has started and not yet finished.
InFlight == {c \in CallIds : calls[c].pc # "idle"}

\* The cycle in slot c finishes in this step.
Finishes(c) == calls[c].pc = "done" /\ calls'[c].pc = "idle"

\* A refresh cycle starts in this step: fetchMarketData is called once more,
\* for the market type and the symbols now selected, and sets isLoading.
CycleStarts ==
    /\ started' = started + 1
    /\ isLoading'
    /\ \E c \in CallIds :
          /\ calls[c].pc = "idle"
          /\ calls'[c].pc # "idle"
          /\ calls'[c].seq = started'
          /\ calls'[c].type = marketType'
          /\ calls'[c].symbols = selectedItems'
          /\ \A d \in CallIds \ {c} : calls'[d] = calls[d]

\* C16: a refresh cycle starts on every tick of the interval timer, on
\* every manual refresh, and in the very step of every change of the
\* tracked symbols, the market type or the time range; a change of the
\* alert threshold alone starts none and touches no call.
C16_RefreshTriggers ==
    [][ /\ TimerFire => CycleStarts
        /\ RefreshClick => CycleStarts
        /\ ( \/ selectedItems' # selectedItems
             \/ marketType' # marketType
             \/ timeRange' # timeRange ) => CycleStarts
        /\ alertThreshold' # alertThreshold =>
               (started' = started /\ calls' = calls /\ isLoading' = isLoading) ]_vars

\* C16 witness: the time range was changed after the mount and the second
\* cycle, started by the change, is awaiting the provider; the threshold
\* was changed too, and no third cycle started.
C16_Witness ==
    /\ timeRange = "1m"
    /\ alertThreshold = -10
    /\ started = 2
    /\ \E c \in CallIds : calls[c].seq = 2 /\ calls[c].pc = "markets"

\* C17: every refresh cycle that starts finishes, every upstream request
\* being answered in the end; and the step that finishes a cycle, whatever
\* the path its batch came by, leaves isLoading false.
C17_CyclesFinish ==
    /\ \A k \in 1..MaxCycles :
           (\E c \in CallIds : calls[c].seq = k) ~> (\A c \in CallIds : calls[c].seq # k)
    /\ [][ \A c \in CallIds : Finishes(c) => ~isLoading' ]_vars

\* C17 witness: a cycle that ended on the fallback path has finished, no
\* other is in flight, and isLoading is false.
C17_Witness ==
    /\ started > 0
    /\ InFlight = {}
    /\ ~isLoading
    /\ marketData # <<>>
    /\ AllFrom(marketData, "fallback")

\* C12 as claimed: at most one refresh cycle is in flight at any time.
C12_SingleFlight == Cardinality(InFlight) <= 1

\* C13 as claimed: the response of an older fetch is discarded.  When the
\* cycle that finishes is not the one started last and no other cycle is in
\* flight, the cycle started last has finished before it, and what that one
\* displayed stays: the records and the insight are not overwritten.
C13_StaleResponseDiscarded ==
    [][ \A c \in CallIds :
            (Finishes(c) /\ calls[c].seq < started /\ InFlight = {c}) =>
                /\ marketData' = marketData
                /\ aiInsights' = aiInsights ]_vars

-----------------------------------------------------------------------------
(* Properties of the stock history *)

\* C18: the history of a stock record built from a payload of n timestamps
\* has min(n, 30) points, those of the last timestamps, and each point's
\* price and volume are the close and the volume at the array index of the
\* point's timestamp (the current price and 0 standing in for a null).
C18_HistoryAligned ==
    \A r \in Range(marketData) :
        LET n == Len(chart.timestamp)
            first == IF n > ChartWindow THEN n - ChartWindow ELSE 0
        IN  /\ Len(r.history) = Min(n, ChartWindow)
            /\ \A i \in 1..Len(r.history) :
                   /\ r.history[i].date = ChartDate(chart.timestamp[first + i])
                   /\ r.history[i].price =
                          OrElse(chart.close[first + i], chart.regularMarketPrice)
                   /\ r.history[i].volume = OrElse(chart.volume[first + i], 0)

-----------------------------------------------------------------------------
(* Properties of the cache's writes *)

\* The call in slot c returns in this step.
Settles(c) == calls[c].pc # "done" /\ calls'[c].pc = "done"

\* The call in slot c stores its batch in this step, and nothing else of
\* the cache changes.
Stores(c) == cache' = CacheSet(KeyOf(calls'[c]), calls'[c].result)

\* A call that fell back on the key of the call in slot d has returned and
\* its batch is not yet taken.
FellBackOn(d) ==
    \E c \in CallIds \ {d} :
        /\ calls[c].pc = "done"
        /\ calls[c].path = "fallback"
        /\ KeyOf(calls[c]) = KeyOf(calls'[d])

-----------------------------------------------------------------------------
(* Properties of the displayed insight *)

\* C20: between the steps of the refresh cycles, however they interleave,
\* the displayed insight is absent (and then no batch was displayed yet) or
\* it is the insight computed from the batch of records displayed.
C20_InsightOfDisplayedBatch ==
    \/ aiInsights = Null /\ marketData = <<>>
    \/ aiInsights # Null /\ aiInsights = GenerateAIInsights(marketData)

\* C20 witness: two cycles were in flight together and the one started
\* first displayed last: the market type is e-commerce, the records
\* displayed are the crypto provider's, and so is the insight.
C20_Witness ==
    /\ started = 2
    /\ InFlight = {}
    /\ marketType = "ecommerce"
    /\ marketData # <<>>
    /\ AllFrom(marketData, "provider")
    /\ aiInsights # Null

-----------------------------------------------------------------------------
(* The dashboard with its unmount: the life of the interval timer. *)

NextTimers == NextCycles \/ Unmount

SpecTimers == Init /\ [][NextTimers]_vars

-----------------------------------------------------------------------------
(* Properties of the loading flag *)

\* C21 as claimed: isLoading is true in every state in which a refresh
\* cycle is in flight, and it becomes false only in a step that leaves no
\* cycle in flight.
C21_LoadingWhileInFlight ==
    /\ [](InFlight # {} => isLoading)
    /\ [][ (isLoading /\ ~isLoading') => \A c \in CallIds : calls'[c].pc = "idle" ]_vars

-----------------------------------------------------------------------------
(* Properties of the threshold the alert detector compares with *)

\* C22 as claimed: the alert detector of every refresh cycle compares with
\* the alert threshold as the user had last set it when the cycle started,
\* the cycles of the timer included.
C22_ThresholdAtCycleStart ==
    [][ /\ \A c \in CallIds :
              (calls[c].pc = "idle" /\ calls'[c].pc # "idle") =>
                  calls'[c].threshold = alertThreshold
        /\ \A c \in CallIds :
              Finishes(c) =>
                  alerts' = CheckAlerts(alerts, calls[c].result, calls[c].threshold, now)
      ]_vars

-----------------------------------------------------------------------------
(* Properties of the insight's consistency *)

\* C23: for every batch of one record or more the volatility (the mean of
\* the absolute changes) is at least the absolute value of the average
\* change, and so the insight never advises taking profits together with
\* defensive positioning, never labels the volatility High together with
\* stable conditions for entry, and reports a bullish or bearish trend
\* only with a volatility above 2%.
C23_VolatilityAtLeastAverage ==
    (aiInsights # Null /\ marketData # <<>>) =>
        LET avgChange == AvgChange(marketData)
            volatility == Volatility(marketData)
            advice == aiInsights.recommendations
        IN  /\ volatility.num * avgChange.den >= Abs(avgChange.num) * volatility.den
            /\ ~ /\ advice[1] = "Consider taking profits on strong performers"
                 /\ advice[3] = "Consider defensive positioning"
            /\ ~ /\ aiInsights.volatilityAnalysis.label = "High"
                 /\ advice[2] = "Stable conditions for entry"
            /\ aiInsights.trendDirection \in {"bullish", "bearish"} =>
                   Gt(volatility, 20)

\* C23 witness: a batch of falls and a rise, so that the volatility is
\* above the absolute average; the trend is bearish and the volatility is
\* labelled High.
C23_Witness ==
    /\ aiInsights # Null
    /\ marketData # <<>>
    /\ SumAbsChange(marketData) > Abs(SumChange(marketData))
    /\ aiInsights.trendDirection = "bearish"
    /\ aiInsights.volatilityAnalysis.label = "High"
    /\ aiInsights.recommendations[2] = "High volatility detected - use caution"

-----------------------------------------------------------------------------
(* Properties of the interval timer *)

\* C24: at most one auto-refresh timer is armed at any time, whatever the
\* changes of the symbols, the market type and the time range, and none is
\* armed while the component is unmounted.
C24_AtMostOneTimer ==
    /\ Len(timers) <= 1
    /\ ~mounted => timers = <<>>

\* C24 witness: the effect ran at the mount and again at a change of the
\* market type, and the component was then unmounted: no timer is armed.
C24_Witness ==
    /\ started = 2
    /\ marketType # "crypto"
    /\ ~mounted
    /\ timers = <<>>

=============================================================================
